---- MODULE Spec2Model ----
(***************************************************************************)
(* On-demand skill loading: SkillsRegistry, ToolAgent (router), MainAgent  *)
(* (conversational agent) and the Orchestrator that composes them.         *)
(*                                                                         *)
(* Spec          one Orchestrator driven by a caller that awaits each call *)
(* SpecConc      one Orchestrator driven by callers that do not             *)
(* SpecTwo       two Orchestrators side by side                            *)
(* SpecAgent     a MainAgent driven directly (initialize / buildExecutor)  *)
(* SpecChat      a MainAgent driven directly, with run and clearHistory    *)
(* SpecRegistry  a SkillsRegistry driven directly                          *)
(* SpecInit      a SkillsRegistry with its asynchronous initialize calls   *)
(* SpecRouter    ToolAgent.run applied to one language-model reply         *)
(***************************************************************************)
EXTENDS Integers, Sequences, FiniteSets, TLC

VARIABLES
    skills,        \* SkillsRegistry.skills: the Map, as skill objects in insertion order
    initialized,   \* SkillsRegistry.initialized: Set of names
    loadedSkills,  \* SkillsRegistry.loadedSkills: Set of names
    toolAgent,     \* Orchestrator.toolAgent is defined
    chatAgent,     \* Orchestrator.chatAgent is defined
    tools,         \* Orchestrator.tools: the tool accumulator
    agent,         \* MainAgent.agent: the executable context and the tools it is bound to
    agentTools,    \* MainAgent.tools
    chatHistory,   \* MainAgent.chatHistory
    calls,         \* the Orchestrator.run calls in flight, by caller slot
    last,          \* the last API step taken and how it ended
    routed,        \* history: the skill names the router has returned so far
    cleared,       \* history: clearHistory has run on the initialized orchestrator
    reinit,        \* history: initialize has completed more than once
    rtIn,          \* SpecRouter: the language-model reply handed to ToolAgent.run
    rtOut,         \* SpecRouter: what ToolAgent.run made of it
    prev,          \* SpecRegistry: the API step before the last one
    pending,       \* SpecRegistry: the initializeSkill / initializeAll calls awaiting a hook
    hookRuns,      \* SpecRegistry: how often each skill object's hooks have been invoked
    other,         \* SpecTwo: the fields of the Orchestrator that is not taking steps
    active         \* SpecTwo: which Orchestrator is taking steps

vars == <<skills, initialized, loadedSkills, toolAgent, chatAgent, tools, agent,
          agentTools, chatHistory, calls, last, routed, cleared, reinit, rtIn, rtOut,
          prev, pending, hookRuns, other, active>>

orchVars == <<toolAgent, chatAgent, tools>>
registryVars == <<skills, initialized, loadedSkills>>
mainAgentVars == <<agent, agentTools, chatHistory>>
historyVars == <<routed, cleared, reinit>>
routerVars == <<rtIn, rtOut>>
initVars == <<pending, hookRuns>>
peerVars == <<other, active>>

(***************************************************************************)
(* Bounds                                                                  *)
(***************************************************************************)
MaxTurns == 2
MaxRouted == 2
MaxNewTools == 2
MaxContent == 4
MaxHookRuns == 2

(***************************************************************************)
(* Generic helpers                                                         *)
(***************************************************************************)
Range(s) == {s[i] : i \in 1..Len(s)}

SeqsUpTo(S, n) == UNION {[1..k -> S] : k \in 0..n}

RECURSIVE FilterSeq(_, _)
\* Array.prototype.filter with the predicate given as the set of kept elements
FilterSeq(s, keep) ==
    IF s = <<>> THEN <<>>
    ELSE IF Head(s) \in keep THEN <<Head(s)>> \o FilterSeq(Tail(s), keep)
         ELSE FilterSeq(Tail(s), keep)

(***************************************************************************)
(* Skills and tools                                                        *)
(***************************************************************************)
\* The skill objects: two of the built-in skills, two test doubles whose tool
\* names overlap on "shared", and a double that carries the name "weather".
SkillObjects == {"calculator", "weather", "alpha", "beta", "weather2"}

\* skill.metadata.name
MetaName(s) == IF s = "weather2" THEN "weather" ELSE s

ToolNamesOf(s) ==
    CASE s = "calculator" -> <<"calculate", "percentage">>
      [] s = "weather"    -> <<"get_weather", "get_forecast">>
      [] s = "alpha"      -> <<"shared", "a_only">>
      [] s = "beta"       -> <<"b_only", "shared">>
      [] s = "weather2"   -> <<"get_weather", "get_alerts">>

\* A tool object: its name and the skill object that created it
Tool(n, s) == [name |-> n, skill |-> s]

SkillTools(s) == [i \in 1..Len(ToolNamesOf(s)) |-> Tool(ToolNamesOf(s)[i], s)]

\* BaseSkill.initialize is a no-op; only a test double overrides it with a hook
\* that can reject.
HookCanFail(s) == s \in {"alpha", "beta"}

\* The lists the Orchestrator constructor hands to registerAll. The source
\* registers four built-in skills with pairwise distinct tool names; the model
\* takes two of them, the pair of overlapping test doubles, or no skill at all.
Catalogs == {<<>>, <<"calculator", "weather">>, <<"alpha", "beta">>}

NoName == "ghost"

ToolNames(ts) == [i \in 1..Len(ts) |-> ts[i].name]

UniqueByName(ts) == \A i, j \in 1..Len(ts) : ts[i].name = ts[j].name => i = j

(***************************************************************************)
(* SkillsRegistry                                                          *)
(***************************************************************************)
\* Map.keys(): the registered names in insertion order
getNames(sk) == [i \in 1..Len(sk) |-> MetaName(sk[i])]

RegistryHas(sk, name) == \E i \in 1..Len(sk) : MetaName(sk[i]) = name

\* Map.get(name); only used where RegistryHas(sk, name)
RegistryGet(sk, name) == sk[CHOOSE i \in 1..Len(sk) : MetaName(sk[i]) = name]

\* register(skill) that keeps the skill already registered under the name
registerFirstWins(sk, s) ==
    IF RegistryHas(sk, MetaName(s)) THEN sk ELSE Append(sk, s)

\* register(skill): Map.set keeps the position of a key that is already present
register(sk, s) ==
    IF RegistryHas(sk, MetaName(s))
    THEN [i \in 1..Len(sk) |-> IF MetaName(sk[i]) = MetaName(s) THEN s ELSE sk[i]]
    ELSE Append(sk, s)

\* skill.metadata: the name, a description and the optional version
Metadata(s) ==
    [name |-> MetaName(s), description |-> <<"about", s>>, version |-> "1.0.0"]

\* a getAllMetadata that hands out the skills themselves
getAllMetadataFull(sk) ==
    [i \in 1..Len(sk) |-> [name |-> MetaName(sk[i]), description |-> <<"about", sk[i]>>,
                           version |-> "1.0.0", tools |-> SkillTools(sk[i])]]

\* getAllMetadata(): the metadata of the Map's values, in insertion order
getAllMetadata(sk) == [i \in 1..Len(sk) |-> Metadata(sk[i])]

\* Orchestrator.getAvailableSkills(), on the registry's skills
getAvailableSkills(sk) ==
    LET all == getAllMetadata(sk)
    IN [i \in 1..Len(all) |-> [name |-> all[i].name, description |-> all[i].description]]

RECURSIVE registerAll(_, _)
registerAll(sk, list) ==
    IF list = <<>> THEN sk ELSE registerAll(register(sk, Head(list)), Tail(list))

\* loadSkill(name) without the already-loaded check
loadSkillNoLoadedCheck(sk, loaded, name) ==
    IF ~RegistryHas(sk, name)
    THEN [found |-> FALSE, tools |-> <<>>, loadedSkills |-> loaded]
    ELSE [found |-> TRUE, tools |-> SkillTools(RegistryGet(sk, name)),
          loadedSkills |-> loaded \cup {name}]

\* loadSkill(name) that marks the name as loaded before it looks the skill up
loadSkillAddFirst(sk, loaded, name) ==
    IF ~RegistryHas(sk, name)
    THEN [found |-> FALSE, tools |-> <<>>, loadedSkills |-> loaded \cup {name}]
    ELSE IF name \in loaded
    THEN [found |-> FALSE, tools |-> <<>>, loadedSkills |-> loaded]
    ELSE [found |-> TRUE, tools |-> SkillTools(RegistryGet(sk, name)),
          loadedSkills |-> loaded \cup {name}]

\* loadSkill(name) that hands out the first tool of the skill only
loadSkillFirstTool(sk, loaded, name) ==
    IF ~RegistryHas(sk, name)
    THEN [found |-> FALSE, tools |-> <<>>, loadedSkills |-> loaded]
    ELSE IF name \in loaded
    THEN [found |-> FALSE, tools |-> <<>>, loadedSkills |-> loaded]
    ELSE [found |-> TRUE, tools |-> SubSeq(SkillTools(RegistryGet(sk, name)), 1, 1),
          loadedSkills |-> loaded \cup {name}]

\* loadSkill(name) that forgets what was loaded before
loadSkillReplace(sk, loaded, name) ==
    IF ~RegistryHas(sk, name)
    THEN [found |-> FALSE, tools |-> <<>>, loadedSkills |-> loaded]
    ELSE IF name \in loaded
    THEN [found |-> FALSE, tools |-> <<>>, loadedSkills |-> loaded]
    ELSE [found |-> TRUE, tools |-> SkillTools(RegistryGet(sk, name)),
          loadedSkills |-> {name}]

\* loadSkill(name): found = FALSE is the null result
loadSkill(sk, loaded, name) ==
    IF ~RegistryHas(sk, name)
    THEN [found |-> FALSE, tools |-> <<>>, loadedSkills |-> loaded]
    ELSE IF name \in loaded
    THEN [found |-> FALSE, tools |-> <<>>, loadedSkills |-> loaded]
    ELSE [found |-> TRUE, tools |-> SkillTools(RegistryGet(sk, name)),
          loadedSkills |-> loaded \cup {name}]

RECURSIVE InitializeAllFrom(_, _, _)
\* initializeAll over the names still to visit: failing is the name of the skill
\* whose initialize hook rejects (NoName: none does). Returns the initialized
\* set and whether the loop threw.
InitializeAllFrom(names, init, failing) ==
    IF names = <<>> THEN [initialized |-> init, threw |-> FALSE]
    ELSE IF Head(names) \in init THEN InitializeAllFrom(Tail(names), init, failing)
    ELSE IF Head(names) = failing THEN [initialized |-> init, threw |-> TRUE]
    ELSE InitializeAllFrom(Tail(names), init \cup {Head(names)}, failing)

initializeAll(sk, init, failing) == InitializeAllFrom(getNames(sk), init, failing)

(***************************************************************************)
(* MainAgent                                                               *)
(***************************************************************************)
NoAgent == [built |-> FALSE, tools |-> <<>>]

createAgent(ts) == [built |-> TRUE, tools |-> ts]

\* a merge in which an incoming tool replaces the existing one of its name
buildExecutorToolsLastWins(cur, newTools) ==
    FilterSeq(cur, {t \in Range(cur) : t.name \notin Range(ToolNames(newTools))}) \o newTools

\* the merge of buildExecutor(newTools): MainAgent.tools afterwards
buildExecutorTools(cur, newTools) ==
    IF Len(newTools) > 0
    THEN LET newToolsName == ToolNames(newTools)
             existingToolsName == Range(ToolNames(cur))
             duplicateToolsName == {newToolsName[i] : i \in
                                      {j \in 1..Len(newToolsName) :
                                          newToolsName[j] \in existingToolsName}}
         IN cur \o FilterSeq(newTools,
                             {t \in Range(newTools) : t.name \notin duplicateToolsName})
    ELSE cur

(***************************************************************************)
(* ToolAgent                                                               *)
(***************************************************************************)
\* The assistant text of the router call, as a sequence of chunks
Chunk(t, v) == [t |-> t, v |-> v]
LB == Chunk("{", <<>>)
RB == Chunk("}", <<>>)
Noise == Chunk("noise", <<>>)
SkillsField(l) == Chunk("skills", l)
ReasoningField(r) == Chunk("reasoning", <<r>>)

IsField(c) == c.t \in {"skills", "reasoning"}

Indices(content, c) == {i \in 1..Len(content) : content[i] = c}

Min(S) == CHOOSE x \in S : \A y \in S : x <= y
Max(S) == CHOOSE x \in S : \A y \in S : x >= y

\* a non-greedy match: the first "{" up to the first "}" after it
jsonMatchLazy(content) ==
    LET lbs == Indices(content, LB)
        rbs == Indices(content, RB)
    IN IF lbs # {} /\ rbs # {} /\ Min(lbs) < Max(rbs)
       THEN SubSeq(content, Min(lbs), Min({j \in rbs : j > Min(lbs)}))
       ELSE <<>>

\* content.match(/\{[\s\S]*\}/): the first "{" that has a "}" after it, up to the
\* last "}"; <<>> when there is no match
jsonMatch(content) ==
    LET lbs == Indices(content, LB)
        rbs == Indices(content, RB)
    IN IF lbs # {} /\ rbs # {} /\ Min(lbs) < Max(rbs)
       THEN SubSeq(content, Min(lbs), Max(rbs))
       ELSE <<>>

\* JSON.parse accepts the matched text when it is one object of fields
Decodable(m) ==
    /\ Len(m) >= 2
    /\ \A i \in 2..(Len(m) - 1) : IsField(m[i])

\* the value of a field of the parsed object (the last occurrence wins),
\* or the default when the field is missing
FieldOr(m, t, default) ==
    LET at == {i \in 1..Len(m) : m[i].t = t}
    IN IF at = {} THEN default ELSE m[Max(at)].v

RouterResult(sk, reasoning, threw) ==
    [skills |-> sk, reasoning |-> reasoning, threw |-> threw]

\* parsed.reasoning || 'n/a': an empty string is replaced like a missing field
ReasoningOr(m, default) ==
    LET r == FieldOr(m, "reasoning", <<default>>)[1]
    IN IF r = "" THEN default ELSE r

\* extractResponse that salvages the fields of a text JSON.parse rejects
extractResponseLenient(content) ==
    LET m == jsonMatch(content)
    IN IF m = <<>> THEN RouterResult(<<>>, "No JSON response", FALSE)
       ELSE RouterResult(FieldOr(m, "skills", <<>>),
                         FieldOr(m, "reasoning", <<"n/a">>)[1], FALSE)

\* ToolAgent.extractResponse(content); threw = TRUE is JSON.parse throwing
extractResponse(content) ==
    LET m == jsonMatch(content)
    IN IF m = <<>> THEN RouterResult(<<>>, "No JSON response", FALSE)
       ELSE IF ~Decodable(m) THEN RouterResult(<<>>, "SyntaxError", TRUE)
       ELSE RouterResult(FieldOr(m, "skills", <<>>), ReasoningOr(m, "n/a"), FALSE)

\* TOOL_AGENT_SYSTEM_PROMPT: the text before the placeholder, the placeholder, the
\* text after it
TOOL_AGENT_SYSTEM_PROMPT == <<"ROUTER_HEAD", "{skills_list}", "ROUTER_RULES">>

\* ToolAgent.buildSkillsList(): one line per metadata record, made of its name and
\* its description
buildSkillsList(sk) ==
    [i \in 1..Len(getAllMetadata(sk)) |->
        <<"- **", getAllMetadata(sk)[i].name, "**: ", getAllMetadata(sk)[i].description>>]

\* TOOL_AGENT_SYSTEM_PROMPT.replace('{skills_list}', skillsList)
RouterPrompt(skillsList) ==
    [i \in 1..Len(TOOL_AGENT_SYSTEM_PROMPT) |->
        IF TOOL_AGENT_SYSTEM_PROMPT[i] = "{skills_list}"
        THEN [text |-> "", lines |-> skillsList]
        ELSE [text |-> TOOL_AGENT_SYSTEM_PROMPT[i], lines |-> <<>>]]

\* a router that also sends the conversation so far
routerMessagesWithHistory(sk, input) ==
    <<[role |-> "system", content |-> RouterPrompt(buildSkillsList(sk))]>>
      \o chatHistory \o <<[role |-> "user", content |-> <<input>>]>>

\* the messages ToolAgent.run hands to model.invoke
routerMessages(sk, input) ==
    <<[role |-> "system", content |-> RouterPrompt(buildSkillsList(sk))],
      [role |-> "user", content |-> <<input>>]>>

\* A reply of the router's language-model call
LMError == [kind |-> "error", content |-> <<>>]
LMText(content) == [kind |-> "text", content |-> content]
\* an assistant message whose content is not a string: content.match throws
LMBlocks == [kind |-> "blocks", content |-> <<>>]

\* ToolAgent.run with the try/catch removed
ToolAgentRunNoCatch(reply) ==
    IF reply.kind = "error" THEN RouterResult(<<>>, "LMError", TRUE)
    ELSE IF reply.kind = "blocks" THEN RouterResult(<<>>, "TypeError", TRUE)
    ELSE extractResponse(reply.content)

\* ToolAgent.run from the reply of model.invoke on
ToolAgentRun(reply) ==
    IF reply.kind = "error" THEN RouterResult(<<>>, "Error during routing", FALSE)
    ELSE IF reply.kind = "blocks" THEN RouterResult(<<>>, "Error during routing", FALSE)
    ELSE LET r == extractResponse(reply.content)
         IN IF r.threw THEN RouterResult(<<>>, "Error during routing", FALSE) ELSE r

(***************************************************************************)
(* Orchestrator                                                            *)
(***************************************************************************)
RECURSIVE handleToolsLoadingLast(_, _, _, _)
\* handleToolsLoading with "toolsAdded = loaded": the last listed name decides
handleToolsLoadingLast(list, sk, loaded, acc) ==
    IF list = <<>> THEN [loadedSkills |-> loaded, tools |-> acc, toolsAdded |-> FALSE]
    ELSE LET result == loadSkill(sk, loaded, Head(list))
             rest == handleToolsLoadingLast(Tail(list), sk, result.loadedSkills,
                                            IF result.found THEN acc \o result.tools ELSE acc)
         IN [rest EXCEPT !.toolsAdded = IF Tail(list) = <<>> THEN result.found
                                        ELSE rest.toolsAdded]

RECURSIVE handleToolsLoadingAlways(_, _, _, _)
\* handleToolsLoading that asks for a rebuild whenever a skill was requested
handleToolsLoadingAlways(list, sk, loaded, acc) ==
    IF list = <<>> THEN [loadedSkills |-> loaded, tools |-> acc, toolsAdded |-> FALSE]
    ELSE LET result == loadSkill(sk, loaded, Head(list))
             rest == handleToolsLoadingAlways(Tail(list), sk, result.loadedSkills,
                                              IF result.found THEN acc \o result.tools ELSE acc)
         IN [rest EXCEPT !.toolsAdded = TRUE]

RECURSIVE handleToolsLoadingReverse(_, _, _, _)
\* handleToolsLoading that goes through the list from its end
handleToolsLoadingReverse(list, sk, loaded, acc) ==
    IF list = <<>> THEN [loadedSkills |-> loaded, tools |-> acc, toolsAdded |-> FALSE]
    ELSE LET result == loadSkill(sk, loaded, list[Len(list)])
             rest == handleToolsLoadingReverse(SubSeq(list, 1, Len(list) - 1), sk,
                                               result.loadedSkills,
                                               IF result.found THEN acc \o result.tools ELSE acc)
         IN [rest EXCEPT !.toolsAdded = result.found \/ rest.toolsAdded]

RECURSIVE handleToolsLoading(_, _, _, _)
\* handleToolsLoading / loadSkillTools over routerResult.skills in listed order:
\* the loaded set, the accumulator and toolsAdded afterwards
handleToolsLoading(list, sk, loaded, acc) ==
    IF list = <<>> THEN [loadedSkills |-> loaded, tools |-> acc, toolsAdded |-> FALSE]
    ELSE LET result == loadSkill(sk, loaded, Head(list))
             rest == handleToolsLoading(Tail(list), sk, result.loadedSkills,
                                        IF result.found THEN acc \o result.tools ELSE acc)
         IN [rest EXCEPT !.toolsAdded = result.found \/ rest.toolsAdded]

\* the callers whose run calls may be in flight together
Slots == {"c1", "c2"}

\* the caller that awaits every call before it makes the next
OneCaller == {"c1"}

Inputs == {"u1", "u2"}

\* role-tagged messages; content is the text as a sequence of fragments
SystemMessage == [role |-> "system", content |-> <<"SYSTEM_PROMPT">>]
HumanMessage(input) == [role |-> "user", content |-> <<input>>]
AIMessage(output) == [role |-> "assistant", content |-> output]

\* What agent.invoke can come back with: a rejection, or a state whose last
\* message is an AIMessage with string content, an AIMessage with content
\* blocks, or nothing an output can be read from
ConvError == [kind |-> "error", blocks |-> <<>>]
ConvString(text) == [kind |-> "string", blocks |-> <<[isText |-> TRUE, text |-> text]>>]
ConvBlocks(blocks) == [kind |-> "blocks", blocks |-> blocks]
TextBlock(text) == [isText |-> TRUE, text |-> text]
OtherBlock == [isText |-> FALSE, text |-> <<>>]

RECURSIVE JoinText(_)
\* content.map(block => text or '').join('')
JoinText(blocks) ==
    IF blocks = <<>> THEN <<>>
    ELSE (IF Head(blocks).isText THEN Head(blocks).text ELSE <<>>) \o JoinText(Tail(blocks))

\* the output MainAgent.run extracts from the result of agent.invoke
extractOutput(result) ==
    IF result.kind = "string" THEN result.blocks[1].text
    ELSE IF result.kind = "blocks" THEN JoinText(result.blocks)
    ELSE <<>>

\* a text is the sequence of its characters
ConvResults ==
    {ConvError, ConvString(<<"a", "1">>),
     ConvBlocks(<<TextBlock(<<"a">>), OtherBlock, TextBlock(<<"1">>)>>)}

\* The state of one Orchestrator.run call
\* hist0, loaded0: the history and the loaded set when the call was made;
\* routerSent, sent: the messages handed to the router's and to the
\* conversational model call;
\* log: the invocations the call has made so far, in order; crossed: clearHistory
\* has returned since the call began; earlier: the calls that were submitted
\* before this one and have not completed (labels for the properties)
IdleCall ==
    [pc |-> "idle", input |-> "", hist0 |-> <<>>, loaded0 |-> {}, route |-> RouterResult(<<>>, "", FALSE),
     kind |-> "", rebuilt |-> FALSE, routerSent |-> <<>>, sent |-> <<>>,
     convTools |-> <<>>, log |-> <<>>, crossed |-> FALSE, earlier |-> {}]

InFlight == {c \in Slots : calls[c].pc # "idle"}

\* the calls once call c has returned or thrown
Finish(c) ==
    [d \in Slots |-> IF d = c THEN IdleCall ELSE [calls[d] EXCEPT !.earlier = @ \ {c}]]

AllIdle == \A c \in Slots : calls[c].pc = "idle"

\* The record of an API step: the operation, its argument, how it ended, what it
\* returned, and what the language model did in that step (a label for the
\* properties)
Done(op, arg, res, out) ==
    [op |-> op, arg |-> arg, res |-> res, out |-> out, lm |-> "", crossed |-> FALSE]
DoneLM(op, arg, res, out, lm) ==
    [op |-> op, arg |-> arg, res |-> res, out |-> out, lm |-> lm, crossed |-> FALSE]
DoneRun(op, arg, res, out, lm, crossed) ==
    [op |-> op, arg |-> arg, res |-> res, out |-> out, lm |-> lm, crossed |-> crossed]

\* How the reply of the router call is classified (a label for the properties)
ReplyKind(reply) ==
    IF reply.kind = "error" THEN "lmError"
    ELSE IF reply.kind = "blocks" THEN "nonString"
    ELSE IF jsonMatch(reply.content) = <<>> THEN "noMatch"
    ELSE IF ~Decodable(jsonMatch(reply.content)) THEN "undecodable"
    ELSE "decoded"

RoutingFailed(kind) == kind \in {"lmError", "nonString", "noMatch", "undecodable"}

\* the names a router result may list: the registered ones and one that is not
RouterNames == Range(getNames(skills)) \cup {NoName}

CanonicalReply(l) == LMText(<<Noise, LB, SkillsField(l), ReasoningField("x"), RB>>)

\* the router replies of a turn
TurnReplies ==
    {CanonicalReply(l) : l \in SeqsUpTo(RouterNames, MaxRouted)}
      \cup {LMError, LMBlocks, LMText(<<Noise>>), LMText(<<LB, ReasoningField("x"), RB>>)}
      \cup {LMText(<<LB, Noise, SkillsField(<<n>>), RB>>) : n \in RouterNames}

\* a buildExecutor that creates the agent only when tools come in
buildExecutorSkipEmpty(newTools) ==
    /\ agentTools' = buildExecutorTools(agentTools, newTools)
    /\ agent' = IF Len(newTools) > 0 THEN createAgent(agentTools') ELSE agent

\* MainAgent.buildExecutor(newTools); an absent newTools is the empty list
buildExecutor(newTools) ==
    /\ agentTools' = buildExecutorTools(agentTools, newTools)
    /\ agent' = createAgent(agentTools')

\* an initialize that rebuilds without emptying the tool set
MainAgentInitializeKeepTools ==
    /\ agentTools' = buildExecutorTools(agentTools, <<>>)
    /\ agent' = createAgent(agentTools')

\* MainAgent.initialize()
MainAgentInitialize ==
    /\ agentTools' = buildExecutorTools(<<>>, <<>>)
    /\ agent' = createAgent(agentTools')

\* Orchestrator.initialize() without the check for an empty registry
InitializeNoCheck(failing) ==
    /\ failing = NoName \/ (RegistryHas(skills, failing) /\ HookCanFail(RegistryGet(skills, failing)))
    /\ LET r == initializeAll(skills, initialized, failing)
       IN /\ initialized' = r.initialized
          /\ IF r.threw
             THEN /\ last' = Done("initialize", "", "HookError", <<>>)
                  /\ UNCHANGED <<toolAgent, chatAgent, agent, agentTools, chatHistory, reinit>>
             ELSE /\ toolAgent' = TRUE
                  /\ chatAgent' = TRUE
                  /\ chatHistory' = <<>>
                  /\ MainAgentInitialize
                  /\ reinit' = (reinit \/ chatAgent)
                  /\ last' = Done("initialize", "", "ok", <<>>)
    /\ UNCHANGED <<skills, loadedSkills, tools, calls, routed, cleared, rtIn, rtOut, prev,
                   initVars, peerVars>>

\* Orchestrator.initialize(); failing names the skill whose hook rejects
Initialize(failing) ==
    /\ failing = NoName \/ (RegistryHas(skills, failing) /\ HookCanFail(RegistryGet(skills, failing)))
    /\ LET r == initializeAll(skills, initialized, failing)
       IN /\ initialized' = r.initialized
          /\ IF r.threw
             THEN /\ last' = Done("initialize", "", "HookError", <<>>)
                  /\ UNCHANGED <<toolAgent, chatAgent, agent, agentTools, chatHistory, reinit>>
             ELSE IF Len(getNames(skills)) = 0
             THEN /\ last' = Done("initialize", "", "ConfigError", <<>>)
                  /\ UNCHANGED <<toolAgent, chatAgent, agent, agentTools, chatHistory, reinit>>
             ELSE /\ toolAgent' = TRUE
                  /\ chatAgent' = TRUE
                  /\ chatHistory' = <<>>
                  /\ MainAgentInitialize
                  /\ reinit' = (reinit \/ chatAgent)
                  /\ last' = Done("initialize", "", "ok", <<>>)
    /\ UNCHANGED <<skills, loadedSkills, tools, calls, routed, cleared, rtIn, rtOut, prev, initVars, peerVars>>

\* Orchestrator.run without the check of toolAgent and chatAgent
RunStartNoCheck(c, input) ==
    /\ calls[c].pc = "idle"
    /\ calls' = [calls EXCEPT ![c] = [IdleCall EXCEPT !.pc = "router", !.input = input,
                                                      !.hist0 = chatHistory,
                                                      !.loaded0 = loadedSkills,
                                                      !.routerSent =
                                                          routerMessages(skills, input),
                                                      !.log = <<"router.invoke">>,
                                                      !.earlier = InFlight]]
    /\ last' = Done("run", input, "routing", <<>>)
    /\ UNCHANGED <<registryVars, orchVars, mainAgentVars, historyVars, routerVars, prev, initVars, peerVars>>

\* Orchestrator.run(input) up to the router's model.invoke
RunStart(c, input) ==
    /\ calls[c].pc = "idle"
    /\ IF ~toolAgent \/ ~chatAgent
       THEN /\ last' = Done("run", input, "NotInitialized", <<>>)
            /\ UNCHANGED calls
       ELSE /\ calls' = [calls EXCEPT ![c] = [IdleCall EXCEPT !.pc = "router", !.input = input,
                                                              !.hist0 = chatHistory,
                                                              !.loaded0 = loadedSkills,
                                                              !.routerSent =
                                                                  routerMessages(skills,
                                                                                 input),
                                                              !.log = <<"router.invoke">>,
                                                              !.earlier = InFlight]]
            /\ last' = Done("run", input, "routing", <<>>)
    /\ UNCHANGED <<registryVars, orchVars, mainAgentVars, historyVars, routerVars, prev, initVars, peerVars>>

\* messages built without the conversation history
buildMessagesNoHistory(history, input) == <<SystemMessage, HumanMessage(input)>>

\* the messages MainAgent.run hands to agent.invoke
buildMessages(history, input) == <<SystemMessage>> \o history \o <<HumanMessage(input)>>

\* an Orchestrator.run that issues the conversational call before it loads
runStepsConvFirst(r, h) ==
    <<"router.return", "conv.invoke">> \o [i \in 1..Len(r.skills) |-> "loadSkill"]
      \o (IF h.toolsAdded THEN <<"buildExecutor">> ELSE <<>>)

\* What Orchestrator.run invokes between the router's reply and its second await,
\* in order: one registry.loadSkill per listed name, buildExecutor if a skill
\* was loaded, then agent.invoke
runSteps(r, h) ==
    <<"router.return">> \o [i \in 1..Len(r.skills) |-> "loadSkill"]
      \o (IF h.toolsAdded THEN <<"buildExecutor">> ELSE <<>>) \o <<"conv.invoke">>

\* an Orchestrator.run that decides what to load from the loaded set it saw
\* before it awaited the router
RouterReturnStaleLoaded(c, reply) ==
    /\ calls[c].pc = "router"
    /\ LET r == ToolAgentRun(reply)
           h == handleToolsLoading(r.skills, skills, calls[c].loaded0, tools)
       IN /\ loadedSkills' = loadedSkills \cup h.loadedSkills
          /\ tools' = h.tools
          /\ routed' = routed \cup Range(r.skills)
          /\ IF h.toolsAdded THEN buildExecutor(tools') ELSE UNCHANGED <<agent, agentTools>>
          /\ IF ~agent'.built
             THEN /\ calls' = Finish(c)
                  /\ last' = Done("run", calls[c].input, "AgentNotInitialized", <<>>)
             ELSE /\ calls' = [calls EXCEPT ![c] =
                                 [@ EXCEPT !.pc = "conv",
                                           !.route = r,
                                           !.kind = ReplyKind(reply),
                                           !.rebuilt = h.toolsAdded,
                                           !.sent = buildMessages(chatHistory, calls[c].input),
                                           !.log = @ \o runSteps(r, h),
                                           !.convTools = agent'.tools]]
                  /\ last' = Done("run", calls[c].input, "conversing", <<>>)
    /\ UNCHANGED <<skills, initialized, toolAgent, chatAgent, chatHistory, cleared, reinit,
                   rtIn, rtOut, prev, initVars, peerVars>>

\* Orchestrator.run from the router's reply to the conversational agent.invoke:
\* ToolAgent.run returns, handleToolsLoading, buildExecutor, MainAgent.run up to
\* its await
RouterReturn(c, reply) ==
    /\ calls[c].pc = "router"
    /\ LET r == ToolAgentRun(reply)
           h == handleToolsLoading(r.skills, skills, loadedSkills, tools)
       IN IF r.threw
          THEN /\ calls' = Finish(c)
               /\ last' = Done("run", calls[c].input, "RoutingError", <<>>)
               /\ UNCHANGED <<loadedSkills, tools, agent, agentTools, routed>>
          ELSE /\ loadedSkills' = h.loadedSkills
               /\ tools' = h.tools
               /\ routed' = routed \cup Range(r.skills)
               /\ IF h.toolsAdded THEN buildExecutor(tools') ELSE UNCHANGED <<agent, agentTools>>
               /\ IF ~agent'.built
                  THEN /\ calls' = Finish(c)
                       /\ last' = Done("run", calls[c].input, "AgentNotInitialized", <<>>)
                  ELSE /\ calls' = [calls EXCEPT ![c] =
                                      [@ EXCEPT !.pc = "conv",
                                                !.route = r,
                                                !.kind = ReplyKind(reply),
                                                !.rebuilt = h.toolsAdded,
                                                !.sent = buildMessages(chatHistory,
                                                                       calls[c].input),
                                                !.log = @ \o runSteps(r, h),
                                                !.convTools = agent'.tools]]
                       /\ last' = Done("run", calls[c].input, "conversing", <<>>)
    /\ UNCHANGED <<skills, initialized, toolAgent, chatAgent, chatHistory, cleared, reinit,
                   rtIn, rtOut, prev, initVars, peerVars>>

\* MainAgent.run that has pushed the user message before awaiting agent.invoke
ConvReturnEagerPush(c, result) ==
    /\ calls[c].pc = "conv"
    /\ IF result.kind = "error"
       THEN /\ last' = DoneRun("run", calls[c].input, "ConvError", <<>>, result.kind,
                                 calls[c].crossed)
            /\ chatHistory' = chatHistory \o <<HumanMessage(calls[c].input)>>
       ELSE LET output == extractOutput(result)
            IN /\ chatHistory' = chatHistory \o <<HumanMessage(calls[c].input), AIMessage(output)>>
               /\ last' = DoneRun("run", calls[c].input, "ok", output, result.kind,
                                    calls[c].crossed)
    /\ calls' = Finish(c)
    /\ UNCHANGED <<registryVars, orchVars, agent, agentTools, historyVars, routerVars, prev, initVars, peerVars>>

\* MainAgent.run that drops the turn when clearHistory has run during its await
ConvReturnDropCrossed(c, result) ==
    /\ calls[c].pc = "conv"
    /\ IF result.kind = "error"
       THEN /\ last' = DoneRun("run", calls[c].input, "ConvError", <<>>, result.kind,
                               calls[c].crossed)
            /\ UNCHANGED chatHistory
       ELSE LET output == extractOutput(result)
            IN /\ chatHistory' = IF calls[c].crossed THEN chatHistory
                                 ELSE chatHistory \o <<HumanMessage(calls[c].input),
                                                       AIMessage(output)>>
               /\ last' = DoneRun("run", calls[c].input, "ok", output, result.kind,
                                  calls[c].crossed)
    /\ calls' = Finish(c)
    /\ UNCHANGED <<registryVars, orchVars, agent, agentTools, historyVars, routerVars, prev,
                   initVars, peerVars>>

\* a MainAgent.run that puts its user message where the history ended when the
\* run was called, and its assistant message at the end
ConvReturnUserAtCallPosition(c, result) ==
    /\ calls[c].pc = "conv"
    /\ IF result.kind = "error"
       THEN /\ last' = DoneRun("run", calls[c].input, "ConvError", <<>>, result.kind,
                               calls[c].crossed)
            /\ UNCHANGED chatHistory
       ELSE LET output == extractOutput(result)
                at == IF Len(calls[c].hist0) < Len(chatHistory)
                      THEN Len(calls[c].hist0) ELSE Len(chatHistory)
            IN /\ chatHistory' = SubSeq(chatHistory, 1, at)
                                   \o <<HumanMessage(calls[c].input)>>
                                   \o SubSeq(chatHistory, at + 1, Len(chatHistory))
                                   \o <<AIMessage(output)>>
               /\ last' = DoneRun("run", calls[c].input, "ok", output, result.kind,
                                  calls[c].crossed)
    /\ calls' = Finish(c)
    /\ UNCHANGED <<registryVars, orchVars, agent, agentTools, historyVars, routerVars, prev,
                   initVars, peerVars>>

\* MainAgent.run from the result of agent.invoke on, and Orchestrator.run's return
ConvReturn(c, result) ==
    /\ calls[c].pc = "conv"
    /\ IF result.kind = "error"
       THEN /\ last' = DoneRun("run", calls[c].input, "ConvError", <<>>, result.kind,
                                 calls[c].crossed)
            /\ UNCHANGED chatHistory
       ELSE LET output == extractOutput(result)
            IN /\ chatHistory' = chatHistory \o <<HumanMessage(calls[c].input), AIMessage(output)>>
               /\ last' = DoneRun("run", calls[c].input, "ok", output, result.kind,
                                    calls[c].crossed)
    /\ calls' = Finish(c)
    /\ UNCHANGED <<registryVars, orchVars, agent, agentTools, historyVars, routerVars, prev, initVars, peerVars>>

\* Orchestrator.clearHistory()
ClearHistory ==
    /\ IF chatAgent
       THEN /\ chatHistory' = <<>>
            /\ tools' = <<>>
            /\ buildExecutor(<<>>)
            /\ loadedSkills' = {}
            /\ cleared' = TRUE
       ELSE UNCHANGED <<chatHistory, tools, agent, agentTools, loadedSkills, cleared>>
    /\ calls' = [c \in Slots |-> IF calls[c].pc = "idle" THEN calls[c]
                                 ELSE [calls[c] EXCEPT !.crossed = TRUE]]
    /\ last' = Done("clearHistory", "", "ok", <<>>)
    /\ UNCHANGED <<skills, initialized, toolAgent, chatAgent, routed, reinit, rtIn, rtOut, prev, initVars, peerVars>>

NoResult == RouterResult(<<>>, "", FALSE)

\* the callers of initializeSkill and initializeAll
Callers == {"p1", "p2"}

\* A call of initializeSkill or initializeAll: awaiting the initialize hook of
\* skill (registered under name) or not in flight; all: the call is
\* initializeAll, which has come to index idx of the keys
IdlePending == [pc |-> "idle", name |-> "", skill |-> "", all |-> FALSE, idx |-> 0]

\* no invocation of either hook of a skill object
NoRuns == [initialize |-> 0, cleanup |-> 0]

\* there is no second Orchestrator
NoPeer == [exists |-> FALSE]

\* the fields of one Orchestrator as the constructors and field initializers
\* leave them
ConstructedFields ==
    /\ initialized = {}
    /\ loadedSkills = {}
    /\ toolAgent = FALSE
    /\ chatAgent = FALSE
    /\ tools = <<>>
    /\ agent = NoAgent
    /\ agentTools = <<>>
    /\ chatHistory = <<>>
    /\ calls = [c \in Slots |-> IdleCall]
    /\ last = Done("new", "", "ok", <<>>)
    /\ routed = {}
    /\ cleared = FALSE
    /\ reinit = FALSE
    /\ prev = Done("new", "", "ok", <<>>)
    /\ pending = [p \in Callers |-> IdlePending]
    /\ hookRuns = [s \in SkillObjects |-> NoRuns]

\* one Orchestrator, or one of its parts, constructed
Constructed ==
    /\ ConstructedFields
    /\ other = NoPeer
    /\ active = 1

Init ==
    /\ \E cat \in Catalogs : skills = registerAll(<<>>, cat)
    /\ Constructed
    /\ rtIn = LMError
    /\ rtOut = NoResult

\* One caller that awaits every call before it makes the next
Next ==
    \/ AllIdle /\ \E f \in Range(getNames(skills)) \cup {NoName} : Initialize(f)
    \/ AllIdle /\ Len(chatHistory) < 2 * MaxTurns /\ \E c \in OneCaller, i \in Inputs : RunStart(c, i)
    \/ \E c \in OneCaller, reply \in TurnReplies : RouterReturn(c, reply)
    \/ \E c \in OneCaller, result \in ConvResults : ConvReturn(c, result)
    \/ AllIdle /\ ClearHistory

Spec == Init /\ [][Next]_vars

(***************************************************************************)
(* SpecConc: one Orchestrator whose callers do not await each other: a run *)
(* or clearHistory may be called while run calls are suspended at an await *)
(***************************************************************************)
\* the router replies of an overlapping turn
ConcReplies == {CanonicalReply(<<>>), CanonicalReply(<<"weather">>), LMError}

\* each caller sends its own text
InputOf(c) == IF c = "c1" THEN "u1" ELSE "u2"

ConcResults(c) == {ConvError, ConvString(<<"re", calls[c].input>>)}

NextConc ==
    \/ AllIdle /\ Initialize(NoName)
    \/ /\ Len(chatHistory) < 2 * MaxTurns
       /\ \E c \in Slots : RunStart(c, InputOf(c))
    \/ \E c \in Slots, reply \in ConcReplies : RouterReturn(c, reply)
    \/ \E c \in Slots : \E result \in ConcResults(c) : ConvReturn(c, result)
    \/ ClearHistory

InitConc ==
    /\ skills = registerAll(<<>>, <<"calculator", "weather">>)
    /\ Constructed
    /\ rtIn = LMError
    /\ rtOut = NoResult

SpecConc == InitConc /\ [][NextConc]_vars

(***************************************************************************)
(* SpecTwo: two Orchestrators, each driven by a caller that awaits its     *)
(* calls, interleaved step by step. The variables hold the fields of the   *)
(* Orchestrator that is taking steps, other holds those of its peer.       *)
(***************************************************************************)
TwoTurns == 2

\* the registry every Orchestrator would use if it took the module's singleton
registryOfGlobal(o) == 0

\* this.registry of Orchestrator o: the SkillsRegistry its constructor creates
registryOf(o) == o

SharedRegistry == registryOf(1) = registryOf(2)

\* the fields of the Orchestrator that is taking steps
Snapshot ==
    [skills |-> skills, initialized |-> initialized, loadedSkills |-> loadedSkills,
     toolAgent |-> toolAgent, chatAgent |-> chatAgent, tools |-> tools, agent |-> agent,
     agentTools |-> agentTools, chatHistory |-> chatHistory, calls |-> calls,
     last |-> last, routed |-> routed, cleared |-> cleared, reinit |-> reinit]

\* The next step is the other Orchestrator's. A registry that both hold is not
\* exchanged with the rest of the fields.
Switch ==
    /\ active' = 3 - active
    /\ other' = Snapshot
    /\ toolAgent' = other.toolAgent
    /\ chatAgent' = other.chatAgent
    /\ tools' = other.tools
    /\ agent' = other.agent
    /\ agentTools' = other.agentTools
    /\ chatHistory' = other.chatHistory
    /\ calls' = other.calls
    /\ last' = other.last
    /\ routed' = other.routed
    /\ cleared' = other.cleared
    /\ reinit' = other.reinit
    /\ IF SharedRegistry
       THEN UNCHANGED registryVars
       ELSE /\ skills' = other.skills
            /\ initialized' = other.initialized
            /\ loadedSkills' = other.loadedSkills
    /\ UNCHANGED <<routerVars, prev, initVars>>

TwoReplies == {CanonicalReply(<<"weather">>), LMError}

NextTwo ==
    \/ Switch
    \/ AllIdle /\ Initialize(NoName)
    \/ AllIdle /\ Len(chatHistory) < 2 * TwoTurns /\ \E c \in OneCaller : RunStart(c, "u1")
    \/ \E c \in OneCaller, reply \in TwoReplies : RouterReturn(c, reply)
    \/ \E c \in OneCaller : ConvReturn(c, ConvString(<<"a", "1">>))
    \/ AllIdle /\ ClearHistory

\* new Orchestrator() twice
InitTwo ==
    /\ skills = registerAll(<<>>, <<"calculator", "weather">>)
    /\ ConstructedFields
    /\ other = Snapshot
    /\ active = 1
    /\ rtIn = LMError
    /\ rtOut = NoResult

SpecTwo == InitTwo /\ [][NextTwo]_vars

(***************************************************************************)
(* SpecAgent: a MainAgent on its own                                       *)
(***************************************************************************)
\* the tool objects handed to buildExecutor: those of the two test doubles
ToolPool == Range(SkillTools("alpha")) \cup Range(SkillTools("beta"))

InitAgent ==
    /\ skills = <<>>
    /\ Constructed
    /\ rtIn = LMError
    /\ rtOut = NoResult

AgentInitialize ==
    /\ MainAgentInitialize
    /\ last' = Done("MainAgent.initialize", "", "ok", <<>>)
    /\ UNCHANGED <<registryVars, orchVars, chatHistory, calls, historyVars, routerVars, prev, initVars, peerVars>>

AgentBuildExecutor(newTools) ==
    /\ buildExecutor(newTools)
    /\ last' = Done("MainAgent.buildExecutor", "", "ok", newTools)
    /\ UNCHANGED <<registryVars, orchVars, chatHistory, calls, historyVars, routerVars, prev, initVars, peerVars>>

NextAgent ==
    \/ AgentInitialize
    \/ \E newTools \in SeqsUpTo(ToolPool, MaxNewTools) : AgentBuildExecutor(newTools)

SpecAgent == InitAgent /\ [][NextAgent]_vars

(***************************************************************************)
(* SpecChat: a MainAgent on its own, with its run and clearHistory, driven *)
(* by a caller that awaits each call                                       *)
(***************************************************************************)
\* the lists handed to buildExecutor
ChatTools == {<<>>, SkillTools("calculator"), SkillTools("weather")}

\* a MainAgent.run that records the user message before it awaits the model
AgentRunStartEagerPush(c, input) ==
    /\ calls[c].pc = "idle"
    /\ IF ~agent.built
       THEN /\ last' = Done("MainAgent.run", input, "NotInitialized", <<>>)
            /\ UNCHANGED <<calls, chatHistory>>
       ELSE /\ calls' = [calls EXCEPT ![c] =
                           [IdleCall EXCEPT !.pc = "conv", !.input = input,
                                            !.hist0 = chatHistory,
                                            !.sent = buildMessages(chatHistory, input),
                                            !.convTools = agent.tools,
                                            !.log = <<"conv.invoke">>,
                                            !.earlier = InFlight]]
            /\ chatHistory' = Append(chatHistory, HumanMessage(input))
            /\ last' = Done("MainAgent.run", input, "conversing", <<>>)
    /\ UNCHANGED <<registryVars, orchVars, agent, agentTools, historyVars, routerVars, prev,
                   initVars, peerVars>>

\* MainAgent.run(input) up to its await of agent.invoke
AgentRunStart(c, input) ==
    /\ calls[c].pc = "idle"
    /\ IF ~agent.built
       THEN /\ last' = Done("MainAgent.run", input, "NotInitialized", <<>>)
            /\ UNCHANGED calls
       ELSE /\ calls' = [calls EXCEPT ![c] =
                           [IdleCall EXCEPT !.pc = "conv", !.input = input,
                                            !.hist0 = chatHistory,
                                            !.sent = buildMessages(chatHistory, input),
                                            !.convTools = agent.tools,
                                            !.log = <<"conv.invoke">>,
                                            !.earlier = InFlight]]
            /\ last' = Done("MainAgent.run", input, "conversing", <<>>)
    /\ UNCHANGED <<registryVars, orchVars, mainAgentVars, historyVars, routerVars, prev,
                   initVars, peerVars>>

\* a clearHistory that also empties the tool set and rebuilds
AgentClearHistoryAndTools ==
    /\ chatHistory' = <<>>
    /\ agentTools' = <<>>
    /\ agent' = createAgent(<<>>)
    /\ last' = Done("MainAgent.clearHistory", "", "ok", <<>>)
    /\ UNCHANGED <<registryVars, orchVars, calls, historyVars, routerVars, prev,
                   initVars, peerVars>>

\* MainAgent.clearHistory()
AgentClearHistory ==
    /\ chatHistory' = <<>>
    /\ last' = Done("MainAgent.clearHistory", "", "ok", <<>>)
    /\ UNCHANGED <<registryVars, orchVars, agent, agentTools, calls, historyVars, routerVars,
                   prev, initVars, peerVars>>

NextChat ==
    \/ AllIdle /\ AgentInitialize
    \/ AllIdle /\ \E newTools \in ChatTools : AgentBuildExecutor(newTools)
    \/ AllIdle /\ Len(chatHistory) < 2 * MaxTurns
         /\ \E c \in OneCaller, i \in Inputs : AgentRunStart(c, i)
    \/ \E c \in OneCaller, result \in ConvResults : ConvReturn(c, result)
    \/ AllIdle /\ AgentClearHistory

SpecChat == InitAgent /\ [][NextChat]_vars

(***************************************************************************)
(* SpecRegistry: a SkillsRegistry on its own                               *)
(***************************************************************************)
\* the skill objects handed to register
RegistryPool == {"weather", "weather2", "alpha", "beta"}

\* registry.register(skill)
Register(s) ==
    /\ skills' = register(skills, s)
    /\ last' = Done("register", MetaName(s), "ok", <<s>>)
    /\ UNCHANGED <<initialized, loadedSkills, orchVars, mainAgentVars, calls, historyVars,
                   routerVars, initVars, peerVars>>

\* registry.loadSkill(name)
LoadSkill(name) ==
    /\ LET result == loadSkill(skills, loadedSkills, name)
       IN /\ loadedSkills' = result.loadedSkills
          /\ last' = Done("loadSkill", name, IF result.found THEN "tools" ELSE "null",
                          result.tools)
    /\ UNCHANGED <<skills, initialized, orchVars, mainAgentVars, calls, historyVars, routerVars, initVars, peerVars>>

\* a reset that also runs the cleanup hook of every loaded skill and forgets that
\* it was initialized
ResetWithCleanup ==
    /\ loadedSkills' = {}
    /\ initialized' = initialized \ loadedSkills
    /\ hookRuns' = [s \in SkillObjects |->
                      IF s \in Range(skills) /\ MetaName(s) \in loadedSkills
                      THEN [hookRuns[s] EXCEPT !.cleanup = 1]
                      ELSE hookRuns[s]]
    /\ last' = Done("resetLoadedSkills", "", "ok", <<>>)
    /\ UNCHANGED <<skills, orchVars, mainAgentVars, calls, historyVars, routerVars, pending,
                   peerVars>>

\* registry.resetLoadedSkills()
ResetLoadedSkills ==
    /\ loadedSkills' = {}
    /\ last' = Done("resetLoadedSkills", "", "ok", <<>>)
    /\ UNCHANGED <<skills, initialized, orchVars, mainAgentVars, calls, historyVars, routerVars, initVars, peerVars>>

\* registry.getAllMetadata()
RegistryGetAllMetadata ==
    /\ prev' = last
    /\ last' = Done("getAllMetadata", "", "ok", getAllMetadata(skills))
    /\ UNCHANGED <<registryVars, orchVars, mainAgentVars, calls, historyVars, routerVars,
                   initVars, peerVars>>

\* the same calls, with the call before them remembered
RegistryRegister(s) == prev' = last /\ Register(s)
RegistryLoadSkill(name) == prev' = last /\ LoadSkill(name)
RegistryResetLoadedSkills == prev' = last /\ ResetLoadedSkills

NextRegistry ==
    \/ \E s \in RegistryPool : RegistryRegister(s)
    \/ \E name \in {MetaName(s) : s \in RegistryPool} \cup {NoName} : RegistryLoadSkill(name)
    \/ RegistryResetLoadedSkills
    \/ RegistryGetAllMetadata

InitRegistry ==
    /\ skills = <<>>
    /\ Constructed
    /\ rtIn = LMError
    /\ rtOut = NoResult

SpecRegistry == InitRegistry /\ [][NextRegistry]_vars

(***************************************************************************)
(* SpecInit: a SkillsRegistry driven directly by callers that do not await *)
(* each other, with initializeSkill and initializeAll suspended at the     *)
(* await of a skill's initialize hook                                      *)
(***************************************************************************)
InitPool == {"weather", "weather2", "alpha"}

\* initializeSkill(name) that treats a name it does not find as initialized
initializeSkillStartLenient(sk, init, name) ==
    IF ~RegistryHas(sk, name) THEN [res |-> "ok", skill |-> ""]
    ELSE IF name \in init THEN [res |-> "ok", skill |-> ""]
    ELSE [res |-> "hook", skill |-> RegistryGet(sk, name)]

\* initializeSkill(name) up to its await: it throws, returns, or invokes the
\* initialize hook of the skill it found
initializeSkillStart(sk, init, name) ==
    IF ~RegistryHas(sk, name) THEN [res |-> "NotFound", skill |-> ""]
    ELSE IF name \in init THEN [res |-> "ok", skill |-> ""]
    ELSE [res |-> "hook", skill |-> RegistryGet(sk, name)]

\* skill.initialize() is invoked on skill object s
HookInvoked(runs, s) == [runs EXCEPT ![s].initialize = @ + 1]

\* The index of the next key after idx whose initializeSkill awaits a hook, 0 if
\* the iteration over this.skills.keys() comes to its end first. The iterator is
\* live: it visits the keys the Map holds when it gets to them.
NextUninit(sk, init, idx) ==
    LET S == {i \in (idx + 1)..Len(sk) : MetaName(sk[i]) \notin init}
    IN IF S = {} THEN 0 ELSE Min(S)

\* the loop of initializeAll, from the key after idx to its next await or its end
AllStep(p, init, idx) ==
    LET i == NextUninit(skills, init, idx)
    IN IF i = 0
       THEN /\ pending' = [pending EXCEPT ![p] = IdlePending]
            /\ last' = Done("initializeAll", "", "ok", <<>>)
            /\ UNCHANGED hookRuns
       ELSE /\ hookRuns[skills[i]].initialize < MaxHookRuns
            /\ hookRuns' = HookInvoked(hookRuns, skills[i])
            /\ pending' = [pending EXCEPT ![p] =
                              [pc |-> "hook", name |-> MetaName(skills[i]),
                               skill |-> skills[i], all |-> TRUE, idx |-> i]]
            /\ last' = Done("initializeAll", MetaName(skills[i]), "awaiting", <<>>)

\* registry.initializeSkill(name) up to its await
InitializeSkill(p, name) ==
    /\ pending[p].pc = "idle"
    /\ LET r == initializeSkillStart(skills, initialized, name)
       IN IF r.res = "hook"
          THEN /\ hookRuns[r.skill].initialize < MaxHookRuns
               /\ hookRuns' = HookInvoked(hookRuns, r.skill)
               /\ pending' = [pending EXCEPT ![p] =
                                 [pc |-> "hook", name |-> name, skill |-> r.skill,
                                  all |-> FALSE, idx |-> 0]]
               /\ last' = Done("initializeSkill", name, "awaiting", <<>>)
          ELSE /\ last' = Done("initializeSkill", name, r.res, <<>>)
               /\ UNCHANGED <<pending, hookRuns>>
    /\ UNCHANGED <<registryVars, orchVars, mainAgentVars, calls, historyVars, routerVars,
                   prev, peerVars>>

\* registry.initializeAll() up to its first await of a hook
InitializeAll(p) ==
    /\ pending[p].pc = "idle"
    /\ AllStep(p, initialized, 0)
    /\ UNCHANGED <<registryVars, orchVars, mainAgentVars, calls, historyVars, routerVars,
                   prev, peerVars>>

\* an initializeSkill that marks the skill initialized whether or not its hook
\* succeeded
HookReturnMarksFailed(p, ok) ==
    /\ pending[p].pc = "hook"
    /\ ok \/ HookCanFail(pending[p].skill)
    /\ initialized' = initialized \cup {pending[p].name}
    /\ IF ~ok
       THEN /\ pending' = [pending EXCEPT ![p] = IdlePending]
            /\ last' = Done(IF pending[p].all THEN "initializeAll" ELSE "initializeSkill",
                            pending[p].name, "HookError", <<>>)
            /\ UNCHANGED hookRuns
       ELSE IF pending[p].all
            THEN AllStep(p, initialized', pending[p].idx)
            ELSE /\ pending' = [pending EXCEPT ![p] = IdlePending]
                 /\ last' = Done("initializeSkill", pending[p].name, "ok", <<>>)
                 /\ UNCHANGED hookRuns
    /\ UNCHANGED <<skills, loadedSkills, orchVars, mainAgentVars, calls, historyVars,
                   routerVars, prev, peerVars>>

\* The hook awaited by caller p settles: initializeSkill adds the name (or throws
\* what the hook rejected with), and initializeAll goes on with its loop
HookReturn(p, ok) ==
    /\ pending[p].pc = "hook"
    /\ ok \/ HookCanFail(pending[p].skill)
    /\ IF ~ok
       THEN /\ pending' = [pending EXCEPT ![p] = IdlePending]
            /\ last' = Done(IF pending[p].all THEN "initializeAll" ELSE "initializeSkill",
                            pending[p].name, "HookError", <<>>)
            /\ UNCHANGED <<initialized, hookRuns>>
       ELSE /\ initialized' = initialized \cup {pending[p].name}
            /\ IF pending[p].all
               THEN AllStep(p, initialized', pending[p].idx)
               ELSE /\ pending' = [pending EXCEPT ![p] = IdlePending]
                    /\ last' = Done("initializeSkill", pending[p].name, "ok", <<>>)
                    /\ UNCHANGED hookRuns
    /\ UNCHANGED <<skills, loadedSkills, orchVars, mainAgentVars, calls, historyVars,
                   routerVars, prev, peerVars>>

\* registry.registerAll(skills)
RegisterAll(list) ==
    /\ skills' = registerAll(skills, list)
    /\ last' = Done("registerAll", "", "ok", list)
    /\ UNCHANGED <<initialized, loadedSkills, orchVars, mainAgentVars, calls, historyVars,
                   routerVars, prev, initVars, peerVars>>

NextInit ==
    \/ \E s \in InitPool : Register(s) /\ UNCHANGED prev
    \/ \E a, b \in InitPool : RegisterAll(<<a, b>>)
    \/ \E name \in {MetaName(s) : s \in InitPool} \cup {NoName} :
          LoadSkill(name) /\ UNCHANGED prev
    \/ ResetLoadedSkills /\ UNCHANGED prev
    \/ \E p \in Callers, name \in {MetaName(s) : s \in InitPool} \cup {NoName} :
          InitializeSkill(p, name)
    \/ \E p \in Callers : InitializeAll(p)
    \/ \E p \in Callers, ok \in BOOLEAN : HookReturn(p, ok)

SpecInit == InitRegistry /\ [][NextInit]_vars

(***************************************************************************)
(* SpecRouter: ToolAgent.run on one reply                                  *)
(***************************************************************************)
Chunks ==
    {LB, RB, Noise, SkillsField(<<>>), SkillsField(<<"weather">>), ReasoningField("x"),
     ReasoningField("")}

RouterReplies == {LMError, LMBlocks} \cup {LMText(c) : c \in SeqsUpTo(Chunks, MaxContent)}

InitRouter ==
    /\ skills = <<>>
    /\ Constructed
    /\ rtIn \in RouterReplies
    /\ rtOut = NoResult

RouterRun ==
    /\ last.op = "new"
    /\ rtOut' = ToolAgentRun(rtIn)
    /\ last' = Done("ToolAgent.run", "", IF rtOut'.threw THEN "threw" ELSE "returned", <<>>)
    /\ UNCHANGED <<rtIn, registryVars, orchVars, mainAgentVars, calls, historyVars, prev, initVars, peerVars>>

NextRouter == RouterRun

SpecRouter == InitRouter /\ [][NextRouter]_vars

(***************************************************************************)
(* Properties                                                              *)
(***************************************************************************)
Registered == Range(getNames(skills))

\* the tool names of the skills registered under the names in S
ToolNamesOfSkills(S) == UNION {Range(ToolNamesOf(RegistryGet(skills, n))) : n \in S}

\* t is the first tool of ts that carries its name
IsFirstWithName(ts, t) ==
    \E j \in 1..Len(ts) : ts[j] = t /\ \A k \in 1..(j - 1) : ts[k].name # t.name

Overlap(a, b) == Range(ToolNamesOf(a)) \cap Range(ToolNamesOf(b)) # {}

\* what a failed or completed call must leave alone
programState == <<skills, initialized, loadedSkills, toolAgent, chatAgent, tools, agent,
                  agentTools, chatHistory>>

\* C1: once clearHistory has returned on an initialized orchestrator, the
\* history is empty, the agent's tool set (and the tools its context is bound
\* to) is empty, and the registry's loaded set is empty.
C1_ClearHistoryResetsAll ==
    (chatAgent /\ last.op = "clearHistory") =>
        /\ Len(chatHistory) = 0
        /\ agentTools = <<>>
        /\ agent.tools = <<>>
        /\ loadedSkills = {}

\* C2: when two registered skills with overlapping tool names are both loaded,
\* the agent's tool set holds each name once, and every tool it holds is the
\* first one of that name in loading order (the accumulator's order).
C2_RebuildDeduplication ==
    \A a, b \in loadedSkills :
        (chatAgent /\ a # b /\ Overlap(RegistryGet(skills, a), RegistryGet(skills, b))) =>
            /\ UniqueByName(agentTools)
            /\ \A i \in 1..Len(agentTools) :
                  IsFirstWithName(tools, agentTools[i])

\* C3: after any sequence of MainAgent.initialize and buildExecutor calls, no
\* two entries of the agent's tool set have the same name.
C3_ToolSetUniqueByName == UniqueByName(agentTools) /\ UniqueByName(agent.tools)

\* C4 as claimed: before initialize has completed, a run or clearHistory call
\* ends with NotInitialized and the state is still the constructed one.
C4_FailsNotInitialized ==
    ((~toolAgent \/ ~chatAgent) /\ last.op \in {"run", "clearHistory"}) =>
        /\ last.res = "NotInitialized"
        /\ loadedSkills = {} /\ tools = <<>> /\ chatHistory = <<>> /\ agentTools = <<>>

\* C4 as amended: before initialize has completed, run fails with
\* NotInitialized and clearHistory returns normally without an error; neither
\* call changes the registry sets, the accumulator, the agent or the history.
C4_RunFailsClearIsNoOp ==
    [][((~toolAgent \/ ~chatAgent) /\ last'.op \in {"run", "clearHistory"}) =>
          /\ last'.res = (IF last'.op = "run" THEN "NotInitialized" ELSE "ok")
          /\ UNCHANGED programState
          /\ UNCHANGED calls]_vars

C4_Witness ==
    /\ ~chatAgent
    /\ initialized # {}
    /\ last.op = "clearHistory"
    /\ last.res = "ok"

\* C5: loadSkill(name) for a registered name that is not loaded returns the
\* tools of the skill registered under it and adds the name to the loaded set;
\* the loadSkill(name) call that directly follows it returns null and leaves
\* the size of the loaded set as it is.
C5_LoadSkillTwice ==
    [][(last'.op = "loadSkill" /\ RegistryHas(skills, last'.arg)) =>
          /\ (last'.arg \notin loadedSkills =>
                /\ last'.res = "tools"
                /\ last'.out = SkillTools(RegistryGet(skills, last'.arg))
                /\ loadedSkills' = loadedSkills \cup {last'.arg})
          /\ ((prev'.op = "loadSkill" /\ prev'.arg = last'.arg /\ prev'.res = "tools") =>
                /\ last'.res = "null"
                /\ Cardinality(loadedSkills') = Cardinality(loadedSkills))]_vars

C5_Witness ==
    /\ prev.op = "loadSkill"
    /\ prev.res = "tools"
    /\ prev.arg = last.arg
    /\ last.op = "loadSkill"
    /\ last.res = "null"
    /\ RegistryHas(skills, last.arg)
    /\ last.arg \in loadedSkills
    /\ Cardinality(loadedSkills) >= 2

\* C6: in a session that was initialized once and never cleared, the loaded
\* set is the set of registered names the router has returned so far, and the
\* names of the agent's tools are exactly the tool names of the loaded skills
\* (no tool at all while no registered name was returned).
C6_LoadedIsRouted ==
    (chatAgent /\ ~cleared /\ ~reinit) =>
        /\ loadedSkills = routed \cap Registered
        /\ Range(ToolNames(agentTools)) = ToolNamesOfSkills(loadedSkills)
        /\ Range(ToolNames(agent.tools)) = ToolNamesOfSkills(loadedSkills)
        /\ (routed \cap Registered = {} => agentTools = <<>>)

C6_Witness ==
    /\ chatAgent /\ ~cleared /\ ~reinit
    /\ AllIdle
    /\ loadedSkills = {"weather"}
    /\ NoName \in routed
    /\ Len(chatHistory) >= 2

\* C7: a turn whose router result lists only names that are unregistered or
\* already loaded (or lists nothing) calls no buildExecutor and leaves the
\* accumulator, the agent's tool set and context and the loaded set as they
\* were; the conversational call is issued against that tool set, and the run
\* returns the text the agent produced.
C7_NothingNewNoRebuild ==
    /\ [][\A c \in Slots :
            (/\ calls[c].pc = "router"
             /\ calls'[c].pc = "conv"
             /\ \A n \in Range(calls'[c].route.skills) :
                   ~RegistryHas(skills, n) \/ n \in loadedSkills) =>
                /\ ~calls'[c].rebuilt
                /\ UNCHANGED <<tools, agentTools, agent, loadedSkills>>
                /\ calls'[c].convTools = agentTools]_vars
    /\ [][\A c \in Slots :
            (calls[c].pc = "conv" /\ calls'[c].pc = "idle" /\ last'.lm # "error") =>
                /\ last'.res = "ok"
                /\ AIMessage(last'.out) = chatHistory'[Len(chatHistory')]]_vars

C7_Witness ==
    \E c \in Slots :
        /\ calls[c].pc = "conv"
        /\ calls[c].route.skills = <<"weather", NoName>>
        /\ ~calls[c].rebuilt
        /\ calls[c].convTools = SkillTools("weather")

\* C8: ToolAgent.run always returns; when the model call fails, the reply has
\* no JSON-shaped part or that part cannot be decoded, the result has no skills
\* and a diagnostic reasoning.
C8_RouterNeverThrows ==
    last.op = "ToolAgent.run" =>
        /\ last.res = "returned"
        /\ ~rtOut.threw
        /\ RoutingFailed(ReplyKind(rtIn)) =>
              /\ rtOut.skills = <<>>
              /\ rtOut.reasoning \in {"Error during routing", "No JSON response"}

C8_Witness ==
    /\ last.op = "ToolAgent.run"
    /\ ReplyKind(rtIn) = "undecodable"
    /\ \E i \in 1..Len(rtIn.content) : rtIn.content[i].t = "skills" /\ rtIn.content[i].v # <<>>
    /\ rtOut.reasoning = "Error during routing"

\* C9: the step that receives the router's reply always goes on to issue the
\* conversational call; when routing failed it leaves the registry's three
\* sets, the accumulator and the agent's tool set and context unchanged and
\* rebuilds nothing.
C9_RoutingFailureAbsorbed ==
    [][\A c \in Slots :
          (calls[c].pc = "router" /\ calls'[c] # calls[c]) =>
              /\ calls'[c].pc = "conv"
              /\ RoutingFailed(calls'[c].kind) =>
                    /\ ~calls'[c].rebuilt
                    /\ calls'[c].route.skills = <<>>
                    /\ UNCHANGED <<skills, initialized, loadedSkills, tools, agentTools, agent>>]_vars

C9_Witness ==
    \E c \in Slots :
        /\ calls[c].pc = "conv"
        /\ calls[c].kind = "undecodable"
        /\ loadedSkills # {}
        /\ Len(chatHistory) >= 2

\* C10: when the conversational model call fails, run ends with that failure
\* and the history is what it was when the run was called.
C10_ConvFailureKeepsHistory ==
    [][\A c \in Slots :
          (calls[c].pc = "conv" /\ calls'[c].pc = "idle" /\ last'.lm = "error") =>
              /\ last'.op = "run"
              /\ last'.res = "ConvError"
              /\ chatHistory' = calls[c].hist0]_vars

C10_Witness ==
    /\ AllIdle
    /\ last.op = "run"
    /\ last.res = "ConvError"
    /\ last.lm = "error"
    /\ Len(chatHistory) >= 2

\* C11 as stated: a turn that was in flight when clearHistory returned does not add
\* its messages to the history of the new session
C11_ClearIsAtomic ==
    [][\A c \in Slots :
          calls[c].pc = "conv" /\ calls'[c].pc = "idle" /\ calls[c].crossed
            => chatHistory' = chatHistory]_vars

\* C11 amended: clearHistory on an initialized orchestrator leaves the history
\* empty; an empty history becomes non-empty only when a conversational call
\* returns a result; and a run whose await spans the clear does append its user
\* and assistant message to the history when its conversational call returns
C11_ClearThenInFlightAppends ==
    [][/\ (last'.op = "clearHistory" /\ chatAgent => chatHistory' = <<>>)
       /\ (chatHistory = <<>> /\ chatHistory' # <<>>
             => \E c \in Slots : /\ calls[c].pc = "conv"
                                 /\ calls'[c].pc = "idle"
                                 /\ last'.res = "ok")
       /\ \A c \in Slots :
             calls[c].pc = "conv" /\ calls'[c].pc = "idle" /\ calls[c].crossed
                 /\ last'.res = "ok"
               => chatHistory' = chatHistory \o <<HumanMessage(calls[c].input),
                                                  AIMessage(last'.out)>>]_vars

\* a turn that was in flight across clearHistory is the whole history afterwards
C11_Witness ==
    /\ last.op = "run"
    /\ last.res = "ok"
    /\ last.crossed
    /\ chatHistory = <<HumanMessage(last.arg), AIMessage(last.out)>>

\* C12 as stated: turns are processed one at a time in submission order, so when
\* a run call has issued its conversational call, every run call submitted
\* before it has completed
C12_TurnsInSubmissionOrder ==
    \A c \in Slots : calls[c].pc = "conv" => calls[c].earlier = {}

\* C12 amended: a run's conversational call is built, when its router call
\* returns, from the system prompt, the history as it is at that moment and the
\* new user message; a run appends its user and assistant message at the end of
\* the history when its conversational call returns a result
C12_TurnsInCompletionOrder ==
    [][\A c \in Slots :
          /\ calls[c].pc = "router" /\ calls'[c].pc = "conv"
                => /\ calls'[c].sent = <<SystemMessage>> \o chatHistory
                                          \o <<HumanMessage(calls[c].input)>>
                   /\ chatHistory' = chatHistory
          /\ calls[c].pc = "conv" /\ calls'[c].pc = "idle" /\ last'.res = "ok"
                => /\ Len(chatHistory') = Len(chatHistory) + 2
                   /\ SubSeq(chatHistory', 1, Len(chatHistory)) = chatHistory
                   /\ chatHistory'[Len(chatHistory) + 1] = HumanMessage(calls[c].input)
                   /\ chatHistory'[Len(chatHistory) + 2] = AIMessage(last'.out)]_vars

\* a turn has completed, and of two overlapping runs the earlier-submitted one is
\* still awaiting its conversational call when the later-submitted one has
\* issued its own, built from the completed turn only
C12_Witness ==
    \E c, d \in Slots :
        /\ d \in calls[c].earlier
        /\ calls[d].pc = "conv"
        /\ calls[c].pc = "conv"
        /\ Len(chatHistory) = 2
        /\ calls[c].sent = <<SystemMessage>> \o chatHistory \o <<HumanMessage(calls[c].input)>>

\* the positions of event e in a call's log
Positions(log, e) == {i \in 1..Len(log) : log[i] = e}

C14_LoadedOnlyGrows ==
    [][last'.op # "clearHistory" => loadedSkills \subseteq loadedSkills']_vars

\* a turn has failed at the conversational call after a second skill was loaded
C14_Witness ==
    /\ last.op = "run"
    /\ last.res = "ConvError"
    /\ Cardinality(loadedSkills) = 2
    /\ ~cleared

\* C15 as stated, for the skills whose hook never rejects: over any sequence of
\* initializeSkill and initializeAll calls, overlapping ones included, the
\* initialize hook of a skill object is invoked no more than once
C15_HookRunsOnce ==
    \A s \in SkillObjects : ~HookCanFail(s) => hookRuns[s].initialize <= 1

\* C16: initializeSkill(name) for a name that is not registered throws the
\* not-found error, invokes no hook and leaves the registered skills, the
\* initialized set and the loaded set as they are
C16_UnknownSkillFails ==
    [][(last'.op = "initializeSkill" /\ ~RegistryHas(skills, last'.arg)) =>
          /\ last'.res = "NotFound"
          /\ UNCHANGED <<skills, initialized, loadedSkills, hookRuns, pending>>]_vars

\* initializeSkill has failed for the unregistered name on a registry that holds
\* registered, initialized and loaded skills
C16_Witness ==
    /\ last.op = "initializeSkill"
    /\ last.arg = NoName
    /\ last.res = "NotFound"
    /\ initialized # {}
    /\ loadedSkills # {}

\* C17: in every state the registry operations can reach, the initialized names
\* and the loaded names are names of registered skills
C17_SetsWithinRegistered ==
    /\ initialized \subseteq Registered
    /\ loadedSkills \subseteq Registered

\* both registered names are initialized and loaded, one of them under a skill
\* object that replaced the one first registered, and the unregistered name has
\* been asked for
C17_Witness ==
    /\ Cardinality(Registered) = 2
    /\ initialized = Registered
    /\ loadedSkills = Registered
    /\ "weather2" \in Range(skills)
    /\ last.arg = NoName

\* C18: resetLoadedSkills empties the loaded set and nothing else: the registered
\* skills and the initialized set stay as they are, no initialize or cleanup hook
\* is invoked and no initialize call in flight is disturbed
C18_ResetOnlyLoaded ==
    [][last'.op = "resetLoadedSkills" =>
          /\ loadedSkills' = {}
          /\ UNCHANGED <<skills, initialized, hookRuns, pending>>]_vars

\* the loaded set has been reset on a registry whose two names are initialized,
\* while an initializeAll is awaiting a hook
C18_Witness ==
    /\ last.op = "resetLoadedSkills"
    /\ loadedSkills = {}
    /\ initialized # {}
    /\ \E s \in Range(skills) : hookRuns[s].initialize > 0
    /\ \E p \in Callers : pending[p].pc = "hook"

\* C19: loadSkill(name) returns null and leaves the loaded set as it is when the
\* name is not registered; for a registered name that is not loaded it adds that
\* name and no other to the loaded set and returns all the tools, in order, of
\* the skill object now registered under the name; in both cases the registered
\* skills and the initialized set do not change and no hook is invoked
C19_LoadSkillResult ==
    [][last'.op = "loadSkill" =>
          /\ (~RegistryHas(skills, last'.arg) =>
                /\ last'.res = "null"
                /\ loadedSkills' = loadedSkills)
          /\ ((RegistryHas(skills, last'.arg) /\ last'.arg \notin loadedSkills) =>
                /\ last'.res = "tools"
                /\ last'.out = SkillTools(RegistryGet(skills, last'.arg))
                /\ Len(last'.out) = Len(ToolNamesOf(RegistryGet(skills, last'.arg)))
                /\ loadedSkills' \ loadedSkills = {last'.arg}
                /\ loadedSkills \subseteq loadedSkills')
          /\ UNCHANGED <<skills, initialized, hookRuns, pending>>]_vars

\* loadSkill has handed out the tools of the skill object that replaced the one
\* first registered under its name, on a registry with an initialized skill and
\* another loaded name
C19_Witness ==
    /\ last.op = "loadSkill"
    /\ last.res = "tools"
    /\ last.arg = "weather"
    /\ "weather2" \in Range(skills)
    /\ last.out = SkillTools("weather2")
    /\ initialized # {}
    /\ loadedSkills = {"weather", "alpha"}

\* the registry fields of the Orchestrator that is not taking steps
OtherRegistry ==
    IF SharedRegistry THEN <<skills, initialized, loadedSkills>>
    ELSE <<other.skills, other.initialized, other.loadedSkills>>

\* C20: a step of initialize, run or clearHistory on one Orchestrator leaves every
\* field of the other one as it is: its registered, initialized and loaded
\* sets, its tool accumulator, its agent and agent tools, its history and its
\* calls in flight
C20_InstancesIndependent ==
    [][active' = active =>
          /\ other' = other
          /\ OtherRegistry' = OtherRegistry]_vars

\* one Orchestrator has loaded a skill and been cleared while the other,
\* initialized and with the skill loaded, awaits its conversational call
C20_Witness ==
    /\ active = 1
    /\ last.op = "clearHistory"
    /\ cleared
    /\ routed = {"weather"}
    /\ loadedSkills = {}
    /\ other.chatAgent
    /\ other.loadedSkills = {"weather"}
    /\ other.agentTools = SkillTools("weather")
    /\ other.calls["c1"].pc = "conv"
    /\ ~other.cleared

\* C21 as stated: after buildExecutor(newTools), a second buildExecutor(newTools)
\* would leave the agent's tool set as the first call left it, and that tool set
\* has no two tools of the same name
C21_BuildExecutorIdempotent ==
    [][last'.op = "MainAgent.buildExecutor" =>
          /\ buildExecutorTools(agentTools', last'.out) = agentTools'
          /\ UniqueByName(agentTools')]_vars

\* C22: getAllMetadata() returns one record per registered name, each the
\* metadata of the skill registered under that name and without a tool or schema
\* field, and getAvailableSkills() is the name and description of the same
\* records, in the same order
C22_MetadataPerName ==
    last.op = "getAllMetadata" =>
        /\ Len(last.out) = Cardinality(Registered)
        /\ \A n \in Registered :
              Cardinality({i \in 1..Len(last.out) : last.out[i].name = n}) = 1
        /\ \A i \in 1..Len(last.out) :
              /\ last.out[i].name \in Registered
              /\ last.out[i] = Metadata(RegistryGet(skills, last.out[i].name))
              /\ DOMAIN last.out[i] \cap {"tools", "schema"} = {}
        /\ Len(getAvailableSkills(skills)) = Len(last.out)
        /\ \A i \in 1..Len(last.out) :
              /\ DOMAIN getAvailableSkills(skills)[i] = {"name", "description"}
              /\ getAvailableSkills(skills)[i].name = last.out[i].name
              /\ getAvailableSkills(skills)[i].description = last.out[i].description

\* getAllMetadata has been called on a registry of three skills registered under
\* three names
C22_Witness ==
    /\ last.op = "getAllMetadata"
    /\ Len(last.out) = 3
    /\ Range(skills) = {"weather", "alpha", "beta"}

\* C23: MainAgent.initialize, whatever the agent held before, leaves the agent
\* with an empty tool set and a context bound to no tool; MainAgent.run on an
\* agent whose context was never built fails with NotInitialized, issues no
\* model call and leaves the history and the agent as they are
C23_InitializeZeroTools ==
    [][/\ last'.op = "MainAgent.initialize" =>
             /\ agentTools' = <<>>
             /\ agent'.built
             /\ agent'.tools = <<>>
       /\ (last'.op = "MainAgent.run" /\ ~agent.built) =>
             /\ last'.res = "NotInitialized"
             /\ UNCHANGED <<chatHistory, agent, agentTools, calls>>]_vars

\* initialize has run on an agent that had completed a turn, and its context is
\* bound to no tool
C23_Witness ==
    /\ last.op = "MainAgent.initialize"
    /\ chatHistory # <<>>
    /\ agent = createAgent(<<>>)

\* C24: Orchestrator.initialize on a registry without a registered skill fails
\* with the configuration error and constructs neither the router nor the
\* conversational agent, and a run that follows fails with NotInitialized
\* without starting a call
C24_EmptyRegistryIsFatal ==
    [][/\ (last'.op = "initialize" /\ Len(getNames(skills)) = 0) =>
             /\ last'.res = "ConfigError"
             /\ ~toolAgent' /\ ~chatAgent' /\ ~agent'.built
       /\ (last.res = "ConfigError" /\ last'.op = "run") =>
             /\ last'.res = "NotInitialized"
             /\ UNCHANGED <<calls, chatHistory, tools, loadedSkills>>]_vars

\* initialize has failed on the empty registry
C24_Witness ==
    /\ last.op = "initialize"
    /\ last.res = "ConfigError"
    /\ skills = <<>>
    /\ ~toolAgent /\ ~chatAgent

\* the incoming tools whose name no tool of old carries, in their input order
Survivors(old, new) ==
    SelectSeq(new, LAMBDA t : \A i \in 1..Len(old) : old[i].name # t.name)

\* C25: after buildExecutor(newTools) the previous tool set is a prefix of the
\* new one, object for object (so no tool is removed or replaced), and what
\* follows the prefix is the incoming tools whose name no previous tool carries,
\* in their input order
C25_MergeFirstSeenWins ==
    [][last'.op = "MainAgent.buildExecutor" =>
          /\ Len(agentTools') >= Len(agentTools)
          /\ SubSeq(agentTools', 1, Len(agentTools)) = agentTools
          /\ SubSeq(agentTools', Len(agentTools) + 1, Len(agentTools'))
                = Survivors(agentTools, last'.out)]_vars

\* buildExecutor has dropped beta's tool named "shared" in favour of alpha's and
\* appended beta's other tool
C25_Witness ==
    /\ last.op = "MainAgent.buildExecutor"
    /\ last.out = SkillTools("beta")
    /\ agentTools = SkillTools("alpha") \o <<Tool("b_only", "beta")>>

\* C26: every buildExecutor call, one with an empty or absent newTools included,
\* leaves the agent with a context that is bound to the tool set as it is after
\* the call; with empty newTools that is the tool set as it was before
C26_RebuildOnEveryCall ==
    [][last'.op = "MainAgent.buildExecutor" =>
          /\ agent'.built
          /\ agent'.tools = agentTools'
          /\ (Len(last'.out) = 0 => agentTools' = agentTools)]_vars

\* buildExecutor with no tools has run on an agent that holds tools
C26_Witness ==
    /\ last.op = "MainAgent.buildExecutor"
    /\ last.out = <<>>
    /\ agent.built
    /\ Len(agentTools) = 2
    /\ agent.tools = agentTools

\* the positions of list at which a registered name that is not in loaded stands
\* for the first time
NewAt(list, loaded) ==
    {i \in 1..Len(list) : /\ RegistryHas(skills, list[i])
                          /\ list[i] \notin loaded
                          /\ \A j \in 1..(i - 1) : list[j] # list[i]}

RECURSIVE ToolsFrom(_, _, _)
\* the tools of the skills named at the positions of at, from position i on
ToolsFrom(list, at, i) ==
    IF i > Len(list) THEN <<>>
    ELSE (IF i \in at THEN SkillTools(RegistryGet(skills, list[i])) ELSE <<>>)
           \o ToolsFrom(list, at, i + 1)

\* C27: handleToolsLoading asks for a rebuild exactly when some listed name is
\* registered and was not loaded; the accumulator afterwards is the accumulator
\* before followed by the tools of each such name, in listed order and once per
\* name however often the name is listed; those names and no others are added
\* to the loaded set
C27_HandleToolsLoading ==
    [][\A c \in Slots :
          (calls[c].pc = "router" /\ calls'[c].pc = "conv") =>
              LET list == calls'[c].route.skills
                  at == NewAt(list, loadedSkills)
              IN /\ calls'[c].rebuilt = (at # {})
                 /\ tools' = tools \o ToolsFrom(list, at, 1)
                 /\ loadedSkills' = loadedSkills \cup {list[i] : i \in at}]_vars

\* a router reply has listed the same unloaded skill twice, and its tools are in
\* the accumulator once
C27_Witness ==
    \E c \in Slots :
        /\ calls[c].pc = "conv"
        /\ calls[c].route.skills = <<"weather", "weather">>
        /\ calls[c].rebuilt
        /\ tools = SkillTools("calculator") \o SkillTools("weather")

\* h is a sequence of turns: a user message, then the assistant message for it
PairShape(h) ==
    /\ Len(h) % 2 = 0
    /\ \A i \in 1..Len(h) : h[i].role = (IF i % 2 = 1 THEN "user" ELSE "assistant")

C29_ClearHistoryFrame ==
    [][last'.op = "MainAgent.clearHistory" =>
           /\ chatHistory' = <<>>
           /\ agentTools' = agentTools
           /\ agent' = agent]_vars

\* the history was cleared on an agent that holds the weather tools
C29_Witness ==
    /\ last.op = "MainAgent.clearHistory"
    /\ chatHistory = <<>>
    /\ agent.built
    /\ agent.tools = agentTools
    /\ agentTools = SkillTools("weather")

\* the skill a batch leaves under the name: its last member with that name
LastNamed(list, name) ==
    list[CHOOSE i \in 1..Len(list) :
            /\ MetaName(list[i]) = name
            /\ \A j \in (i + 1)..Len(list) : MetaName(list[j]) # name]

\* C30: register(skill) leaves get(name) returning that skill, keeps every other
\* name's skill and the order of names, adds a name only if it was absent, and
\* leaves initialized and loadedThisSession alone; registerAll(list) leaves each
\* listed name with its last member in the list, adds exactly the absent names,
\* and leaves the two sets alone as well
C30_RegisterOverwrites ==
    [][/\ last'.op = "register" =>
             LET s == last'.out[1]
                 name == MetaName(s)
             IN /\ RegistryGet(skills', name) = s
                /\ getNames(skills') = IF RegistryHas(skills, name)
                                        THEN getNames(skills)
                                        ELSE Append(getNames(skills), name)
                /\ \A i \in 1..Len(skills) :
                      MetaName(skills[i]) # name => skills'[i] = skills[i]
                /\ UNCHANGED <<initialized, loadedSkills>>
       /\ last'.op = "registerAll" =>
             LET list == last'.out
                 names == {MetaName(list[i]) : i \in 1..Len(list)}
             IN /\ \A n \in names : RegistryGet(skills', n) = LastNamed(list, n)
                /\ Len(skills') = Len(skills)
                                     + Cardinality({n \in names : ~RegistryHas(skills, n)})
                /\ \A i \in 1..Len(skills) :
                      MetaName(skills[i]) \notin names => skills'[i] = skills[i]
                /\ UNCHANGED <<initialized, loadedSkills>>]_vars

\* a batch holding two skills named weather was registered over a weather skill
\* that is initialized and loaded: the second of the batch is the one kept
C30_Witness ==
    /\ last.op = "registerAll"
    /\ last.out = <<"weather", "weather2">>
    /\ getNames(skills) = <<"weather">>
    /\ RegistryGet(skills, "weather") = "weather2"
    /\ "weather" \in initialized
    /\ "weather" \in loadedSkills

\* C31: two Orchestrators whose registries hold the same metadata, each with a
\* run suspended at its router call on the same input, have sent the same
\* router messages, whatever their histories, loaded sets and tool sets; and the
\* step that issues the router call changes no registry, tool-set or history
\* state
C31_RouterStateless ==
    /\ [](\A c \in OneCaller :
             (/\ calls[c].pc = "router"
              /\ other.calls[c].pc = "router"
              /\ getAllMetadata(skills) = getAllMetadata(other.skills)
              /\ calls[c].input = other.calls[c].input) =>
                 calls[c].routerSent = other.calls[c].routerSent)
    /\ [][\A c \in OneCaller :
             (active' = active /\ calls[c].pc = "idle" /\ calls'[c].pc = "router") =>
                 UNCHANGED <<skills, initialized, loadedSkills, tools, agent, agentTools,
                             chatHistory>>]_vars

\* both Orchestrators are suspended at their router call on the same input; one
\* has a turn in its history and the weather skill loaded, the other has neither
C31_Witness ==
    \E c \in OneCaller :
        /\ calls[c].pc = "router"
        /\ other.calls[c].pc = "router"
        /\ calls[c].input = other.calls[c].input
        /\ Len(chatHistory) = 2
        /\ other.chatHistory = <<>>
        /\ loadedSkills = {"weather"}
        /\ other.loadedSkills = {}
        /\ tools # other.tools
        /\ calls[c].routerSent = routerMessages(skills, calls[c].input)

\* the text has a "{" with a "}" somewhere after it
HasBraces(content) ==
    \E i, j \in 1..Len(content) : i < j /\ content[i] = LB /\ content[j] = RB

\* the text from its first "{" to its last "}"
Braced(content) ==
    SubSeq(content, Min({i \in 1..Len(content) : content[i] = LB}),
                    Max({j \in 1..Len(content) : content[j] = RB}))

\* the value the text gives to a field, absent when the text has no such field
FieldValues(m, t) == {m[i].v : i \in {k \in 1..Len(m) : m[k].t = t /\ \A l \in (k + 1)..Len(m) : m[l].t # t}}

\* C32 as stated: whenever the assistant text has a "{" followed later by a "}",
\* the router's result carries the skills and reasoning fields of the text
\* between the first "{" and the last "}", or [] and "n/a" for a missing field;
\* a text with no "{" gives no skills and "No JSON response"
C32_ParseAnyBraces ==
    (last.op = "ToolAgent.run" /\ rtIn.kind = "text") =>
        /\ HasBraces(rtIn.content) =>
              LET m == Braced(rtIn.content)
              IN /\ rtOut.skills \in (IF FieldValues(m, "skills") = {}
                                      THEN {<<>>} ELSE FieldValues(m, "skills"))
                 /\ <<rtOut.reasoning>> \in (IF FieldValues(m, "reasoning") = {}
                                             THEN {<<"n/a">>}
                                             ELSE FieldValues(m, "reasoning"))
        /\ Indices(rtIn.content, LB) = {} =>
              rtOut = RouterResult(<<>>, "No JSON response", FALSE)

\* C32: when the text between the first "{" and the last "}" is one JSON object,
\* the result carries its skills field, or [] if missing, and its reasoning
\* field, or "n/a" if missing or empty; when that text is not valid JSON the
\* result has no skills and the reasoning "Error during routing"; a text with
\* no "{" followed by a "}" gives no skills and "No JSON response"
C32_ParseDecodable ==
    (last.op = "ToolAgent.run" /\ rtIn.kind = "text") =>
        IF ~HasBraces(rtIn.content)
        THEN rtOut = RouterResult(<<>>, "No JSON response", FALSE)
        ELSE LET m == Braced(rtIn.content)
             IN IF \E i \in 2..(Len(m) - 1) : m[i].t \notin {"skills", "reasoning"}
                THEN rtOut = RouterResult(<<>>, "Error during routing", FALSE)
                ELSE /\ rtOut.skills \in (IF FieldValues(m, "skills") = {}
                                          THEN {<<>>} ELSE FieldValues(m, "skills"))
                     /\ <<rtOut.reasoning>> \in
                            (IF FieldValues(m, "reasoning") \subseteq {<<"">>}
                             THEN {<<"n/a">>} ELSE FieldValues(m, "reasoning"))
                     /\ ~rtOut.threw

\* a text with noise before a valid object that has skills and no reasoning was
\* parsed
C32_Witness ==
    /\ last.op = "ToolAgent.run"
    /\ rtIn = LMText(<<Noise, LB, SkillsField(<<"weather">>), RB>>)
    /\ rtOut = RouterResult(<<"weather">>, "n/a", FALSE)

\* C33: whenever a run has issued its conversational call, the tool set that
\* call was issued with holds, by name, every tool of every skill in
\* loadedThisSession
C33_LoadedToolsBound ==
    \A c \in Slots :
        calls[c].pc = "conv" =>
            ToolNamesOfSkills(loadedSkills) \subseteq Range(ToolNames(calls[c].convTools))

\* C34: with overlapping runs, the accumulator holds the tools of exactly the
\* skills loaded in this session, each tool once, and the agent's tool set and
\* the tool set of its context hold no name twice
C34_OverlapLoadsOnce ==
    /\ \A i, j \in 1..Len(tools) : i # j => tools[i] # tools[j]
    /\ Range(tools) = UNION {Range(SkillTools(RegistryGet(skills, n))) : n \in loadedSkills}
    /\ UniqueByName(agentTools)
    /\ UniqueByName(agent.tools)

\* two runs overlap, both were routed to the weather skill and both have issued
\* their conversational call: the first one loaded it, the second did not
C34_Witness ==
    /\ calls["c1"].pc = "conv"
    /\ calls["c2"].pc = "conv"
    /\ calls["c1"].route.skills = <<"weather">>
    /\ calls["c2"].route.skills = <<"weather">>
    /\ calls["c2"].loaded0 = {}
    /\ calls["c1"].rebuilt
    /\ ~calls["c2"].rebuilt
    /\ tools = SkillTools("weather")
    /\ agentTools = SkillTools("weather")

\* C35: with overlapping runs, the history is a sequence of pairs, every user
\* message immediately followed by the assistant text the model produced for
\* that user message
C35_PairsIntact ==
    /\ PairShape(chatHistory)
    /\ \A i \in 1..Len(chatHistory) :
          chatHistory[i].role = "user" =>
              /\ i < Len(chatHistory)
              /\ chatHistory[i + 1] = AIMessage(<<"re">> \o chatHistory[i].content)

\* the second run has returned and left its pair in the history while the first
\* run is still awaiting the conversational call it issued on the empty history
C35_Witness ==
    /\ last.op = "run"
    /\ last.res = "ok"
    /\ last.arg = "u2"
    /\ chatHistory = <<HumanMessage("u2"), AIMessage(<<"re", "u2">>)>>
    /\ calls["c1"].pc = "conv"
    /\ calls["c1"].sent = <<SystemMessage, HumanMessage("u1")>>

C37_CurrentSkillsInitialized ==
    /\ (last.op = "initializeAll" /\ last.res = "ok") =>
           \A i \in 1..Len(skills) : hookRuns[skills[i]].initialize >= 1
    /\ (last.op = "loadSkill" /\ last.res = "tools") =>
           last.out = SkillTools(RegistryGet(skills, last.arg))

====
